---- MODULE Spec2Model ----
(***************************************************************************)
(* Model of pinax-stripe's order / plan synchronization actions            *)
(* (pinax/stripe/actions/orders.py, pinax/stripe/actions/plans.py) and of  *)
(* the customer / invoice admin list filters (pinax/stripe/admin.py).      *)
(*                                                                         *)
(* Conventions                                                             *)
(*   - Python None for a string-valued field is the string None.           *)
(*   - An optional integer is a sequence: << >> is None, <<n>> is n.       *)
(*   - A Decimal is <<m, e>>, the number m * 10^(-e); << >> is None.       *)
(*   - An optional object (a return value) is << >> or <<object>>.         *)
(*   - A provider object carries kind = "stripe", a Django model instance  *)
(*     kind = "model": only the former has a .get method.                  *)
(***************************************************************************)
EXTENDS Integers, Sequences, FiniteSets, TLC

VARIABLES
    remote,         \* provider side: the order listing, a sequence of stripe orders
    customers,      \* local store: stripe ids of the Customer rows
    orders,         \* local store: the Order rows, in insertion order
    charges,        \* local store: stripe ids of the Charge rows
    remotePlans,    \* provider side: the plan listing
    plans,          \* local store: the Plan rows, in insertion order
    last,           \* the latest call: its arguments, provider calls, outcome
    adminDb,        \* admin: the Customer / Card / Subscription / Invoice tables
    view            \* admin: the latest changelist filter request and its result

vars == <<remote, customers, orders, charges, remotePlans, plans, last, adminDb, view>>

orderVars == <<remote, customers, orders, charges, remotePlans, plans, last>>
adminVars == <<adminDb, view>>

----------------------------------------------------------------------------
(* Bounds and value domains *)

MaxOrders == 2
MaxPlans == 1
PageSize == 1

None == "None"

IdPool == <<"or_1", "or_2", "or_3", "or_4">>
ChargePool == <<"ch_1", "ch_2", "ch_3", "ch_4">>
PlanPool == <<"plan_1", "plan_2", "plan_3", "plan_4">>

OrderIds == {IdPool[i] : i \in 1..MaxOrders}
CustomerIds == {"cus_1", "cus_2"}
Currencies == {"usd", "jpy"}

Truthy(x) == x \notin {None, ""}
TruthyInt(x) == x # << >> /\ x # <<0>>

Min(a, b) == IF a < b THEN a ELSE b

----------------------------------------------------------------------------
(* utils.convert_amount_for_db *)

ZERO_DECIMAL_CURRENCIES ==
    {"bif", "clp", "djf", "gnf", "jpy", "kmf", "krw", "mga", "pyg", "rwf",
     "vnd", "vuv", "xaf", "xof", "xpf"}

convert_amount_for_db(amount, currency) ==
    IF amount = << >> THEN << >>
    ELSE IF currency \in ZERO_DECIMAL_CURRENCIES THEN <<amount[1], 0>>
    ELSE <<amount[1], 2>>

----------------------------------------------------------------------------
(* The local store as seen by one call: w = [orders, charges, calls, saves] *)

World == [orders |-> orders, charges |-> charges, calls |-> << >>, saves |-> 0,
          synced |-> << >>]

Raise(w, e) == [w |-> w, exc |-> e, ret |-> << >>]
Return(w, r) == [w |-> w, exc |-> "none", ret |-> r]

Matching(rows, stripe_id) == {i \in 1..Len(rows) : rows[i].stripe_id = stripe_id}

\* The name -> value mapping of a row restricted to the keys of defaults.
DefaultsOf(row) == [k \in (DOMAIN row) \ {"kind", "stripe_id"} |-> row[k]]

\* objects.create in place of objects.get_or_create
always_create(rows, stripe_id, defaults) ==
    LET row == [k \in (DOMAIN defaults) \cup {"kind", "stripe_id"} |->
                    IF k = "kind" THEN "model"
                    ELSE IF k = "stripe_id" THEN stripe_id
                    ELSE defaults[k]]
    IN [rows |-> Append(rows, row), at |-> Len(rows) + 1, created |-> TRUE, exc |-> "none"]

\* models.Order.objects.get_or_create(stripe_id=..., defaults=defaults)
get_or_create(rows, stripe_id, defaults) ==
    LET found == Matching(rows, stripe_id) IN
    IF found = {}
    THEN LET row == [k \in (DOMAIN defaults) \cup {"kind", "stripe_id"} |->
                        IF k = "kind" THEN "model"
                        ELSE IF k = "stripe_id" THEN stripe_id
                        ELSE defaults[k]]
         IN [rows |-> Append(rows, row), at |-> Len(rows) + 1, created |-> TRUE,
             exc |-> "none"]
    ELSE IF Cardinality(found) = 1
    THEN [rows |-> rows, at |-> CHOOSE i \in found : TRUE, created |-> FALSE,
          exc |-> "none"]
    ELSE [rows |-> rows, at |-> 0, created |-> FALSE,
          exc |-> "MultipleObjectsReturned"]

\* utils.update_with_defaults(obj, defaults, created)
update_with_defaults(rows, at, defaults, created) ==
    IF created THEN [rows |-> rows, saved |-> FALSE]
    ELSE IF DefaultsOf(rows[at]) # defaults
    THEN [rows |-> [rows EXCEPT ![at] =
                        [k \in DOMAIN rows[at] |->
                            IF k \in DOMAIN defaults THEN defaults[k] ELSE rows[at][k]]],
          saved |-> TRUE]
    ELSE [rows |-> rows, saved |-> FALSE]

\* charges.sync_charge_from_stripe_data(stripe.Charge.retrieve(charge))
sync_charge(w, charge) ==
    [w EXCEPT !.calls = Append(@, <<"Charge.retrieve", charge>>),
              !.charges = @ \cup {charge}]

OrderDefaults(stripe_order, charge) ==
    [amount |-> convert_amount_for_db(stripe_order.amount, stripe_order.currency),
     amount_returned |->
        IF TruthyInt(stripe_order.amount_returned)
        THEN convert_amount_for_db(stripe_order.amount_returned, stripe_order.currency)
        ELSE << >>,
     charge |-> charge,
     currency |-> stripe_order.currency,
     customer |-> stripe_order.customer,
     livemode |-> stripe_order.livemode,
     metadata |-> stripe_order.metadata,
     selected_shipping_method |-> stripe_order.selected_shipping_method,
     shipping |-> stripe_order.shipping,
     shipping_methods |-> stripe_order.shipping_methods,
     status |-> stripe_order.status,
     status_transitions |-> stripe_order.status_transitions,
     items |-> stripe_order.items]

\* the charge synchronized before the customer is looked up
sync_charge_first(w0, stripe_order) ==
    LET w == [w0 EXCEPT !.synced = Append(@, IF stripe_order.kind = "stripe"
                                             THEN stripe_order.id
                                             ELSE stripe_order.stripe_id)] IN
    IF stripe_order.kind # "stripe" THEN Raise(w, "AttributeError")
    ELSE
    LET w1 == IF Truthy(stripe_order.charge) THEN sync_charge(w, stripe_order.charge) ELSE w
        defaults == OrderDefaults(stripe_order, stripe_order.charge)
        goc == get_or_create(w1.orders, stripe_order.id, defaults)
    IN  IF stripe_order.customer \notin customers THEN Raise(w1, "DoesNotExist")
        ELSE IF goc.exc # "none" THEN Raise(w1, goc.exc)
        ELSE
        LET upd == update_with_defaults(goc.rows, goc.at, defaults, goc.created)
            n == (IF goc.created THEN 1 ELSE 0) + (IF upd.saved THEN 1 ELSE 0)
            w2 == [w1 EXCEPT !.orders = upd.rows, !.saves = @ + n]
        IN  Return(w2, <<upd.rows[goc.at]>>)

\* the charge and the order written in one transaction: a failed order write
\* takes the charge back
sync_order_atomic(w0, stripe_order, writeOutcome) ==
    LET w == [w0 EXCEPT !.synced = Append(@, IF stripe_order.kind = "stripe"
                                             THEN stripe_order.id
                                             ELSE stripe_order.stripe_id)] IN
    IF stripe_order.kind # "stripe" THEN Raise(w, "AttributeError")
    ELSE IF stripe_order.customer \notin customers THEN Raise(w, "DoesNotExist")
    ELSE
    LET w1 == IF Truthy(stripe_order.charge) THEN sync_charge(w, stripe_order.charge) ELSE w
        defaults == OrderDefaults(stripe_order, stripe_order.charge)
        goc == get_or_create(w1.orders, stripe_order.id, defaults)
    IN  IF writeOutcome # "ok" THEN Raise([w1 EXCEPT !.charges = w.charges], writeOutcome)
        ELSE IF goc.exc # "none" THEN Raise([w1 EXCEPT !.charges = w.charges], goc.exc)
        ELSE
        LET upd == update_with_defaults(goc.rows, goc.at, defaults, goc.created)
            n == (IF goc.created THEN 1 ELSE 0) + (IF upd.saved THEN 1 ELSE 0)
            w2 == [w1 EXCEPT !.orders = upd.rows, !.saves = @ + n]
        IN  Return(w2, <<upd.rows[goc.at]>>)

\* sync_order_from_stripe_data(stripe_order), the database answering the write of
\* the Order row (get_or_create) with writeOutcome: "ok", or the error it raises
sync_order_from_stripe_data_writing(w0, stripe_order, writeOutcome) ==
    LET w == [w0 EXCEPT !.synced = Append(@, IF stripe_order.kind = "stripe"
                                             THEN stripe_order.id
                                             ELSE stripe_order.stripe_id)] IN
    IF stripe_order.kind # "stripe" THEN Raise(w, "AttributeError")
    ELSE IF stripe_order.customer \notin customers THEN Raise(w, "DoesNotExist")
    ELSE
    LET w1 == IF Truthy(stripe_order.charge) THEN sync_charge(w, stripe_order.charge) ELSE w
        defaults == OrderDefaults(stripe_order, stripe_order.charge)
        goc == get_or_create(w1.orders, stripe_order.id, defaults)
    IN  IF writeOutcome # "ok" THEN Raise(w1, writeOutcome)
        ELSE IF goc.exc # "none" THEN Raise(w1, goc.exc)
        ELSE
        LET upd == update_with_defaults(goc.rows, goc.at, defaults, goc.created)
            n == (IF goc.created THEN 1 ELSE 0) + (IF upd.saved THEN 1 ELSE 0)
            w2 == [w1 EXCEPT !.orders = upd.rows, !.saves = @ + n]
        IN  Return(w2, <<upd.rows[goc.at]>>)

\* sync_order_from_stripe_data(stripe_order), the database taking every write
sync_order_from_stripe_data(w0, stripe_order) ==
    sync_order_from_stripe_data_writing(w0, stripe_order, "ok")

----------------------------------------------------------------------------
(* The provider (stripe SDK) as the actions use it *)

SkuPrice == 100

\* models.Sku.convert_to_order_item
convert_to_order_item(sku) == [kind |-> "item", type |-> "sku", parent |-> sku.stripe_id]

ConvertItems(items) ==
    [i \in 1..Len(items) |->
        IF items[i].kind = "model" THEN convert_to_order_item(items[i]) ELSE items[i]]

IndexOf(stripe_id) == CHOOSE i \in 1..Len(IdPool) : IdPool[i] = stripe_id

Exists(stripe_id) == \E i \in 1..Len(remote) : remote[i].id = stripe_id

\* stripe.Order.create(**params): the order the provider answers with
NewOrder(params) ==
    [kind |-> "stripe",
     id |-> IdPool[Len(remote) + 1],
     customer |-> params.customer,
     amount |-> <<SkuPrice * Len(params.items)>>,
     amount_returned |-> << >>,
     currency |-> params.currency,
     charge |-> None,
     status |-> "created",
     coupon |-> params.coupon,
     metadata |-> params.metadata,
     selected_shipping_method |-> None,
     shipping |-> params.shipping,
     shipping_methods |-> None,
     status_transitions |-> None,
     livemode |-> FALSE,
     items |-> params.items]

\* stripe_order.pay(**params) accepted: the order as the provider returns it
PaidOrder(stripe_order) ==
    [stripe_order EXCEPT !.status = "paid",
                         !.charge = ChargePool[IndexOf(stripe_order.id)],
                         !.status_transitions = "paid"]

\* stripe_order.return_order(**params) accepted: the order as the provider holds it
ReturnedOrder(stripe_order) ==
    [stripe_order EXCEPT !.status = "returned",
                         !.amount_returned = stripe_order.amount,
                         !.status_transitions = "returned"]

Store(rem, stripe_order) ==
    [i \in 1..Len(rem) |-> IF rem[i].id = stripe_order.id THEN stripe_order ELSE rem[i]]

\* A provider call and how it ended, appended to the record of the running call.
Called(w, name, outcome) == [w EXCEPT !.calls = Append(@, <<name, outcome>>)]

\* The outcome of one call, as the next state: the local writes and the record of it.
Finish(op, args, res) ==
    /\ orders' = res.w.orders
    /\ charges' = res.w.charges
    /\ last' = [op |-> op, args |-> args, exc |-> res.exc, ret |-> res.ret,
                calls |-> res.w.calls, saves |-> res.w.saves, synced |-> res.w.synced]

----------------------------------------------------------------------------
(* orders.pay, as a function of the store: also used by orders.create *)

\* the order synchronized locally before the provider is asked to take the payment
pay_after_sync(w, rem, stripe_order, source, outcome) ==
    LET w0 == sync_order_from_stripe_data(w, stripe_order).w
        w1 == Called(w0, "Order.pay", outcome)
    IN
    IF outcome # "ok" THEN [res |-> Raise(w1, outcome), rem |-> rem]
    ELSE LET paid_order == PaidOrder(stripe_order) IN
         [res |-> sync_order_from_stripe_data(w1, paid_order), rem |-> Store(rem, paid_order)]

\* rem is the provider's listing; the result carries the listing after the call.
pay(w, rem, stripe_order, source, outcome) ==
    LET w1 == Called(w, "Order.pay", outcome) IN
    IF outcome # "ok" THEN [res |-> Raise(w1, outcome), rem |-> rem]
    ELSE LET paid_order == PaidOrder(stripe_order) IN
         [res |-> sync_order_from_stripe_data(w1, paid_order), rem |-> Store(rem, paid_order)]

PayOutcomes(stripe_order) ==
    IF stripe_order.status = "created"
    THEN {"ok", "InvalidRequestError", "CardError"}
    ELSE {"InvalidRequestError"}

----------------------------------------------------------------------------
(* orders.create *)

MissingSourceIsNone(pay_immediately, source) == pay_immediately /\ source = None

\* if pay_immediately and not source
MissingSource(pay_immediately, source) == pay_immediately /\ ~Truthy(source)

SuppressedCardError(exc) == exc = "CardError"

\* except stripe.InvalidRequestError: pass
Suppressed(exc) == exc = "InvalidRequestError"

Create(customer, items, currency, source, shipping, coupon, metadata, pay_immediately, createOutcome, payOutcome) ==
    LET args == [customer |-> customer, source |-> source,
                 pay_immediately |-> pay_immediately]
        params == [customer |-> customer, currency |-> currency,
                   items |-> ConvertItems(items), shipping |-> shipping,
                   coupon |-> IF Truthy(coupon) THEN coupon ELSE None,
                   metadata |-> IF Truthy(metadata) THEN metadata ELSE None]
        w1 == Called(World, "Order.create", createOutcome)
        stripe_order == NewOrder(params)
        rem1 == <<stripe_order>> \o remote
    IN
    /\ Len(remote) < MaxOrders
    /\ UNCHANGED <<customers, remotePlans, plans, adminVars>>
    /\ IF MissingSource(pay_immediately, source)
       THEN /\ Finish("create", args, Raise(World, "ValueError"))
            /\ remote' = remote
       ELSE IF createOutcome # "ok"
       THEN /\ Finish("create", args, Raise(w1, createOutcome))
            /\ remote' = remote
       ELSE IF ~pay_immediately
       THEN /\ Finish("create", args, sync_order_from_stripe_data(w1, stripe_order))
            /\ remote' = rem1
       ELSE LET p == pay(w1, rem1, stripe_order, source, payOutcome) IN
            /\ remote' = p.rem
            /\ IF Suppressed(p.res.exc)
               THEN Finish("create", args, sync_order_from_stripe_data(p.res.w, stripe_order))
               ELSE IF p.res.exc # "none"
               THEN Finish("create", args, p.res)
               ELSE Finish("create", args,
                           sync_order_from_stripe_data(p.res.w, p.res.ret[1]))

----------------------------------------------------------------------------
(* models.Order.stripe_order: the order fetched from the provider *)

Fetch(stripe_id) == CHOOSE o \in {remote[i] : i \in 1..Len(remote)} : o.id = stripe_id

\* Either the handle, or the provider's refusal of an identifier it does not know.
stripe_order_of(w, order) ==
    LET w1 == Called(w, "Order.retrieve",
                     IF Exists(order.stripe_id) THEN "ok" ELSE "InvalidRequestError")
    IN
    IF Exists(order.stripe_id)
    THEN Return(w1, <<Fetch(order.stripe_id)>>)
    ELSE Raise(w1, "InvalidRequestError")

LocalOrders == {orders[i] : i \in 1..Len(orders)}
RemoteOrders == {remote[i] : i \in 1..Len(remote)}

----------------------------------------------------------------------------
(* orders.update *)

Update(order, coupon, metadata, selected_shipping_method, shipping, status, saveOutcome) ==
    LET args == [order |-> order.stripe_id, coupon |-> coupon, metadata |-> metadata,
                 selected_shipping_method |-> selected_shipping_method,
                 shipping |-> shipping, status |-> status]
        h == stripe_order_of(World, order)
    IN
    /\ UNCHANGED <<customers, remotePlans, plans, adminVars>>
    /\ IF h.exc # "none"
       THEN /\ Finish("update", args, h)
            /\ remote' = remote
       ELSE LET s0 == h.ret[1]
                s1 == IF Truthy(coupon) THEN [s0 EXCEPT !.coupon = coupon] ELSE s0
                s2 == IF Truthy(metadata) THEN [s1 EXCEPT !.metadata = metadata] ELSE s1
                s3 == IF Truthy(selected_shipping_method)
                      THEN [s2 EXCEPT !.selected_shipping_method = selected_shipping_method]
                      ELSE s2
                s4 == IF Truthy(shipping) THEN [s3 EXCEPT !.shipping = shipping] ELSE s3
                stripe_order == IF Truthy(status) THEN [s4 EXCEPT !.status = status] ELSE s4
                w1 == Called(h.w, "Order.save", saveOutcome)
            IN  IF saveOutcome # "ok"
                THEN /\ Finish("update", args, Raise(w1, saveOutcome))
                     /\ remote' = remote
                ELSE /\ Finish("update", args, sync_order_from_stripe_data(w1, stripe_order))
                     /\ remote' = Store(remote, stripe_order)

----------------------------------------------------------------------------
(* orders.retrieve *)

\* A provider answer is [cls, msg]: the class of the error raised ("ok" when the
\* order is returned) and its message, a sequence of phrases.
NotFoundPhrase == "No such order"

\* smart_str(e).find("No such order") >= 0
IsNotFound(msg) == \E i \in 1..Len(msg) : msg[i] = NotFoundPhrase

IsAnyError(cls) == TRUE

\* except stripe.InvalidRequestError as e
IsInvalidRequest(cls) == cls = "InvalidRequestError"

Retrieve(stripe_order_id, outcome) ==
    LET args == [stripe_order_id |-> stripe_order_id, outcome |-> outcome]
        w1 == Called(World, "Order.retrieve", outcome.cls)
    IN
    /\ UNCHANGED <<remote, customers, remotePlans, plans, adminVars>>
    /\ IF ~Truthy(stripe_order_id)
       THEN Finish("retrieve", args, Return(World, << >>))
       ELSE IF outcome.cls = "ok"
       THEN /\ Exists(stripe_order_id)
            /\ Finish("retrieve", args, Return(w1, <<Fetch(stripe_order_id)>>))
       ELSE IF IsInvalidRequest(outcome.cls) /\ IsNotFound(outcome.msg)
       THEN Finish("retrieve", args, Return(w1, << >>))
       ELSE Finish("retrieve", args, Raise(w1, outcome.cls))

RetrieveOutcomes ==
    {[cls |-> "ok", msg |-> << >>],
     [cls |-> "InvalidRequestError", msg |-> <<"No such order", ": or_x">>],
     [cls |-> "InvalidRequestError", msg |-> <<"Invalid request: ", "No such order">>],
     [cls |-> "InvalidRequestError", msg |-> <<"Invalid API Key provided">>],
     [cls |-> "APIConnectionError", msg |-> <<"Network error">>],
     [cls |-> "APIError", msg |-> <<"No such order", " (gateway)">>]}

----------------------------------------------------------------------------
(* orders.pay *)

Pay(order, source, outcome) ==
    LET args == [order |-> IF order.kind = "model" THEN order.stripe_id ELSE order.id,
                 kind |-> order.kind, source |-> source]
        h == IF order.kind = "model" THEN stripe_order_of(World, order)
             ELSE Return(World, <<order>>)
    IN
    /\ UNCHANGED <<customers, remotePlans, plans, adminVars>>
    /\ IF h.exc # "none"
       THEN /\ Finish("pay", args, h)
            /\ remote' = remote
       ELSE /\ outcome \in PayOutcomes(h.ret[1])
            /\ LET p == pay(h.w, remote, h.ret[1], source, outcome) IN
               /\ Finish("pay", args, p.res)
               /\ remote' = p.rem

----------------------------------------------------------------------------
(* orders.create_return *)

\* return_order answers with the return object and leaves the handle as fetched.
CreateReturn(order, items, outcome) ==
    LET args == [order |-> order.stripe_id, items |-> items]
        h == stripe_order_of(World, order)
    IN
    /\ UNCHANGED <<customers, remotePlans, plans, adminVars>>
    /\ IF h.exc # "none"
       THEN /\ Finish("create_return", args, h)
            /\ remote' = remote
       ELSE LET stripe_order == h.ret[1]
                w1 == Called(h.w, "Order.return_order", outcome)
            IN  IF outcome # "ok"
                THEN /\ Finish("create_return", args, Raise(w1, outcome))
                     /\ remote' = remote
                ELSE /\ Finish("create_return", args,
                               sync_order_from_stripe_data(w1, stripe_order))
                     /\ remote' = Store(remote, ReturnedOrder(stripe_order))

----------------------------------------------------------------------------
(* orders.sync_orders, orders.sync_orders_from_customer *)

FirstPage(listing) == SubSeq(listing, 1, Min(PageSize, Len(listing)))

\* the loop going on to the next order when one fails, the failure raised at the end
RECURSIVE SyncEachSkipping(_, _, _)
SyncEachSkipping(w, listing, k) ==
    IF k > Len(listing) THEN Return(w, << >>)
    ELSE LET r == sync_order_from_stripe_data(w, listing[k]) IN
         IF r.exc # "none"
         THEN Raise(SyncEachSkipping(r.w, listing, k + 1).w, r.exc)
         ELSE SyncEachSkipping(r.w, listing, k + 1)

RECURSIVE SyncEach(_, _, _)
SyncEach(w, listing, k) ==
    IF k > Len(listing) THEN Return(w, << >>)
    ELSE LET r == sync_order_from_stripe_data(w, listing[k]) IN
         IF r.exc # "none" THEN Raise(r.w, r.exc)
         ELSE SyncEach(r.w, listing, k + 1)

RECURSIVE Filter(_, _)
Filter(listing, customer) ==
    IF listing = << >> THEN << >>
    ELSE IF Head(listing).customer = customer
    THEN <<Head(listing)>> \o Filter(Tail(listing), customer)
    ELSE Filter(Tail(listing), customer)

\* has_auto_paging_iter: whether the installed SDK offers auto_paging_iter
Listing(w, listing, has_auto_paging_iter) ==
    IF has_auto_paging_iter
    THEN [w |-> Called(w, "Order.auto_paging_iter", "ok"), orders |-> listing]
    ELSE [w |-> Called(Called(w, "Order.auto_paging_iter", "AttributeError"),
                       "Order.list", "ok"),
          orders |-> FirstPage(listing)]

SyncOrders(has_auto_paging_iter) ==
    LET l == Listing(World, remote, has_auto_paging_iter) IN
    /\ UNCHANGED <<remote, customers, remotePlans, plans, adminVars>>
    /\ Finish("sync_orders", [has_auto_paging_iter |-> has_auto_paging_iter],
              SyncEach(l.w, l.orders, 1))

SyncOrdersFromCustomer(customer, has_auto_paging_iter) ==
    LET w1 == Called(World, "Customer.retrieve", "ok")
        l == Listing(w1, Filter(remote, customer), has_auto_paging_iter)
    IN
    /\ UNCHANGED <<remote, customers, remotePlans, plans, adminVars>>
    /\ Finish("sync_orders_from_customer",
              [customer |-> customer, has_auto_paging_iter |-> has_auto_paging_iter],
              SyncEach(l.w, l.orders, 1))

----------------------------------------------------------------------------
(* orders.sync_order_from_stripe_data called with a payload *)

SyncOrderFromStripeData(stripe_order) ==
    /\ UNCHANGED <<remote, customers, remotePlans, plans, adminVars>>
    /\ Finish("sync_order_from_stripe_data", [stripe_order |-> stripe_order],
              sync_order_from_stripe_data(World, stripe_order))

\* the same call, the database answering the Order write with writeOutcome
SyncOrderFromStripeDataWriting(stripe_order, writeOutcome) ==
    /\ UNCHANGED <<remote, customers, remotePlans, plans, adminVars>>
    /\ Finish("sync_order_from_stripe_data",
              [stripe_order |-> stripe_order, writeOutcome |-> writeOutcome],
              sync_order_from_stripe_data_writing(World, stripe_order, writeOutcome))

----------------------------------------------------------------------------
(* plans.sync_plans *)

PlanDefaults(plan) ==
    [amount |-> convert_amount_for_db(plan.amount, plan.currency),
     currency |-> IF Truthy(plan.currency) THEN plan.currency ELSE "",
     interval |-> plan.interval,
     interval_count |-> plan.interval_count,
     name |-> plan.name,
     statement_descriptor |->
        IF Truthy(plan.statement_descriptor) THEN plan.statement_descriptor ELSE "",
     trial_period_days |-> plan.trial_period_days]

RECURSIVE SyncEachPlan(_, _, _)
SyncEachPlan(st, listing, k) ==
    IF k > Len(listing) THEN st
    ELSE LET defaults == PlanDefaults(listing[k])
             goc == get_or_create(st.rows, listing[k].id, defaults)
         IN  IF goc.exc # "none" THEN [st EXCEPT !.exc = goc.exc]
             ELSE LET upd == update_with_defaults(goc.rows, goc.at, defaults, goc.created)
                      n == (IF goc.created THEN 1 ELSE 0) + (IF upd.saved THEN 1 ELSE 0)
                  IN  SyncEachPlan([st EXCEPT !.rows = upd.rows, !.saves = @ + n],
                                   listing, k + 1)

SyncPlans ==
    LET r == SyncEachPlan([rows |-> plans, exc |-> "none", saves |-> 0],
                          FirstPage(remotePlans), 1)
    IN
    /\ plans' = r.rows
    /\ last' = [op |-> "sync_plans", args |-> [data |-> FirstPage(remotePlans)],
                exc |-> r.exc,
                ret |-> << >>, calls |-> <<<<"Plan.all", "ok">>>>, saves |-> r.saves,
                synced |-> << >>]
    /\ UNCHANGED <<remote, customers, orders, charges, remotePlans, adminVars>>

ProviderStep == [op |-> "provider", args |-> [none |-> TRUE], exc |-> "none", ret |-> << >>,
                 calls |-> << >>, saves |-> 0, synced |-> << >>]

\* The provider's plan listing, which this layer only reads: a plan is added to
\* it, or the display name of a listed plan is edited.
PlanNames == {"Gold", "Pro"}

NewPlan(currency, statement_descriptor) ==
    [id |-> PlanPool[Len(remotePlans) + 1], amount |-> <<SkuPrice>>, currency |-> currency,
     interval |-> "month", interval_count |-> 1, name |-> "Gold",
     statement_descriptor |-> statement_descriptor, trial_period_days |-> 0]

ProviderAddPlan(currency, statement_descriptor) ==
    /\ Len(remotePlans) < MaxPlans
    /\ remotePlans' = <<NewPlan(currency, statement_descriptor)>> \o remotePlans
    /\ last' = ProviderStep
    /\ UNCHANGED <<remote, customers, orders, charges, plans, adminVars>>

ProviderEditPlan(i, name) ==
    /\ i \in 1..Len(remotePlans)
    /\ remotePlans[i].name # name
    /\ remotePlans' = [remotePlans EXCEPT ![i].name = name]
    /\ last' = ProviderStep
    /\ UNCHANGED <<remote, customers, orders, charges, plans, adminVars>>

----------------------------------------------------------------------------
(* The admin tables and list filters (admin.py) *)

MaxCustomers == 2
MaxCards == 2
MaxSubscriptions == 2
MaxInvoices == 1

CustomerPks == 1..MaxCustomers
Fingerprints == {"", "fp_visa"}
SubscriptionStatuses == {"active", "canceled"}

\* Card and Subscription rows are counted per (customer, fingerprint) and per
\* (customer, status), Invoice rows per customer; accounts holds the customers
\* whose stripe_account is set; a queryset over Customer rows
\* (or over Invoice rows, grouped by their customer) is the number of times each
\* customer's row occurs in it.
EmptyDb ==
    [customers |-> {},
     cards |-> [k \in CustomerPks \X Fingerprints |-> 0],
     subscriptions |-> [k \in CustomerPks \X SubscriptionStatuses |-> 0],
     invoices |-> [c \in CustomerPks |-> 0],
     accounts |-> {}]

NoView == [filter |-> "none", value |-> None, base |-> {}, result |-> [c \in CustomerPks |-> 0]]

RECURSIVE Sum(_, _)
Sum(f, S) == IF S = {} THEN 0 ELSE LET x == CHOOSE y \in S : TRUE IN f[x] + Sum(f, S \ {x})

Total(f) == Sum(f, DOMAIN f)

\* the rows of the card_set / subscription_set of customer c
NCards(db, c) == Sum(db.cards, {c} \X Fingerprints)
NSubscriptions(db, c) == Sum(db.subscriptions, {c} \X SubscriptionStatuses)

\* queryset.all() of the changelist's base query over Customer
All(base) == [c \in CustomerPks |-> IF c \in base THEN 1 ELSE 0]

\* queryset.filter(card__isnull=True): the outer join keeps the rows with no card
CardIsNull(db, qs) == [c \in CustomerPks |-> IF NCards(db, c) = 0 THEN qs[c] ELSE 0]

\* queryset.filter(card__isnull=False): the inner join yields a row for each card
CardIsNotNull(db, qs) == [c \in CustomerPks |-> qs[c] * NCards(db, c)]

\* CustomerHasCardListFilter.queryset
CustomerHasCardListFilter(db, qs, value) ==
    IF value = "yes" THEN CardIsNull(db, qs)
    ELSE IF value = "no" THEN CardIsNotNull(db, qs)
    ELSE qs

\* InvoiceCustomerHasCardListFilter.queryset, over the Invoice rows
InvoiceCustomerHasCardListFilter(db, qs, value) ==
    IF value = "yes" THEN CardIsNull(db, qs)
    ELSE IF value = "no" THEN CardIsNotNull(db, qs)
    ELSE qs

\* the status branch taking the customers of every subscription
SubscriptionStatusIgnored(db, qs, value) ==
    IF value = "none"
    THEN [c \in CustomerPks |-> IF NSubscriptions(db, c) = 0 THEN qs[c] ELSE 0]
    ELSE IF Truthy(value)
    THEN [c \in CustomerPks |-> IF NSubscriptions(db, c) > 0 THEN qs[c] ELSE 0]
    ELSE qs

\* CustomerSubscriptionStatusListFilter.queryset
CustomerSubscriptionStatusListFilter(db, qs, value) ==
    IF value = "none"
    THEN [c \in CustomerPks |-> IF NSubscriptions(db, c) = 0 THEN qs[c] ELSE 0]
    ELSE IF Truthy(value)
    THEN LET customers_with == {c \in CustomerPks :
                                  <<c, value>> \in DOMAIN db.subscriptions
                                  /\ db.subscriptions[<<c, value>>] > 0}
         IN  [c \in CustomerPks |-> IF c \in customers_with THEN qs[c] ELSE 0]
    ELSE qs

\* customer_has_card: obj.customer.card_set.exclude(fingerprint="").exists()
HasCard(c) == \E fp \in Fingerprints \ {""} : adminDb.cards[<<c, fp>>] > 0

\* Rows added to the tables
AddCustomer ==
    /\ Cardinality(adminDb.customers) < MaxCustomers
    /\ adminDb' = [adminDb EXCEPT !.customers = @ \cup {Cardinality(@) + 1}]
    /\ view' = NoView
    /\ UNCHANGED orderVars

AddCard(c, fingerprint) ==
    /\ c \in adminDb.customers
    /\ Total(adminDb.cards) < MaxCards
    /\ adminDb' = [adminDb EXCEPT !.cards[<<c, fingerprint>>] = @ + 1]
    /\ view' = NoView
    /\ UNCHANGED orderVars

AddSubscription(c, status) ==
    /\ c \in adminDb.customers
    /\ Total(adminDb.subscriptions) < MaxSubscriptions
    /\ adminDb' = [adminDb EXCEPT !.subscriptions[<<c, status>>] = @ + 1]
    /\ view' = NoView
    /\ UNCHANGED orderVars

AddInvoice(c) ==
    /\ c \in adminDb.customers
    /\ Total(adminDb.invoices) < MaxInvoices
    /\ adminDb' = [adminDb EXCEPT !.invoices[c] = @ + 1]
    /\ view' = NoView
    /\ UNCHANGED orderVars

\* The changelist requests: base is the query the other filters have narrowed.
CustomerChangelistHasCard(base, value) ==
    /\ view' = [filter |-> "customer has_card", value |-> value, base |-> base,
                result |-> CustomerHasCardListFilter(adminDb, All(base), value)]
    /\ UNCHANGED <<adminDb, orderVars>>

InvoiceChangelistHasCard(value) ==
    /\ view' = [filter |-> "invoice has_card", value |-> value,
                base |-> adminDb.customers,
                result |-> InvoiceCustomerHasCardListFilter(adminDb, adminDb.invoices, value)]
    /\ UNCHANGED <<adminDb, orderVars>>

CustomerChangelistSubStatus(base, value) ==
    /\ view' = [filter |-> "customer sub_status", value |-> value, base |-> base,
                result |-> CustomerSubscriptionStatusListFilter(adminDb, All(base), value)]
    /\ UNCHANGED <<adminDb, orderVars>>

----------------------------------------------------------------------------
(* Inputs of the calls *)

Sku1 == [kind |-> "model", stripe_id |-> "sku_1"]
ItemLists == {<<Sku1>>, <<convert_to_order_item(Sku1)>>}

Sources == {None, "", "tok_visa"}
Statuses == {None, "canceled"}
CreateOutcomes == {"ok", "APIConnectionError"}
PayResults == {"ok", "InvalidRequestError", "CardError"}

----------------------------------------------------------------------------
(* Specification of the order and plan actions *)

NoCall == [op |-> "none", args |-> [none |-> TRUE], exc |-> "none", ret |-> << >>,
           calls |-> << >>, saves |-> 0, synced |-> << >>]

AdminInit ==
    /\ adminDb = EmptyDb
    /\ view = NoView

Init ==
    /\ remote = << >>
    /\ customers = {"cus_1"}
    /\ orders = << >>
    /\ charges = {}
    /\ remotePlans = << >>
    /\ plans = << >>
    /\ last = NoCall
    /\ AdminInit

Next ==
    \/ \E customer \in CustomerIds, source \in {None, "tok_visa"},
          pay_immediately \in BOOLEAN, createOutcome \in CreateOutcomes,
          payOutcome \in PayResults :
            Create(customer, <<Sku1>>, "usd", source, None, None, None,
                   pay_immediately, createOutcome, payOutcome)
    \/ \E order \in LocalOrders, status \in Statuses, saveOutcome \in CreateOutcomes :
            Update(order, None, None, None, None, status, saveOutcome)
    \/ \E order \in LocalOrders \cup RemoteOrders, source \in {None, "tok_visa"},
          outcome \in PayResults :
            Pay(order, source, outcome)
    \/ \E order \in LocalOrders, outcome \in CreateOutcomes :
            CreateReturn(order, None, outcome)
    \/ \E has_auto_paging_iter \in BOOLEAN : SyncOrders(has_auto_paging_iter)
    \/ \E customer \in customers, has_auto_paging_iter \in BOOLEAN :
            SyncOrdersFromCustomer(customer, has_auto_paging_iter)
    \/ \E stripe_order \in RemoteOrders : SyncOrderFromStripeData(stripe_order)
    \/ SyncPlans
    \/ \E currency \in {"usd"} : ProviderAddPlan(currency, None)
    \/ \E i \in 1..MaxPlans, name \in PlanNames : ProviderEditPlan(i, name)

Spec == Init /\ [][Next]_vars

----------------------------------------------------------------------------
(* Specification of orders.create and of the synchronization of the orders
   it leaves at the provider *)

NextCreate ==
    \/ \E customer \in CustomerIds, items \in ItemLists, currency \in Currencies,
          source \in Sources, pay_immediately \in BOOLEAN,
          createOutcome \in CreateOutcomes, payOutcome \in PayResults :
            Create(customer, items, currency, source, None, None, None,
                   pay_immediately, createOutcome, payOutcome)
    \/ \E stripe_order \in RemoteOrders : SyncOrderFromStripeData(stripe_order)

SpecCreate == Init /\ [][NextCreate]_vars

----------------------------------------------------------------------------
(* Specification of orders.retrieve over the orders the provider holds *)

RetrieveIds == {None, ""} \cup OrderIds \cup {"or_x"}

NextRetrieve ==
    \/ \E customer \in CustomerIds, pay_immediately \in BOOLEAN, payOutcome \in PayResults :
            Create(customer, <<Sku1>>, "usd", "tok_visa", None, None, None,
                   pay_immediately, "ok", payOutcome)
    \/ \E stripe_order_id \in RetrieveIds, outcome \in RetrieveOutcomes :
            Retrieve(stripe_order_id, outcome)

SpecRetrieve == Init /\ [][NextRetrieve]_vars

----------------------------------------------------------------------------
(* Specification of sync_order_from_stripe_data over the payloads *)

MaxAmount == 1

OptAmounts == {<< >>} \cup {<<n>> : n \in 0..MaxAmount}

Payload(id, customer, currency, charge, amount, amount_returned) ==
    [kind |-> "stripe", id |-> id, customer |-> customer, amount |-> amount,
     amount_returned |-> amount_returned, currency |-> currency, charge |-> charge,
     status |-> IF amount_returned # << >> THEN "returned" ELSE "created",
     coupon |-> None, metadata |-> None, selected_shipping_method |-> None,
     shipping |-> None, shipping_methods |-> None, status_transitions |-> None,
     livemode |-> FALSE, items |-> <<convert_to_order_item(Sku1)>>]

Payloads ==
    {Payload(id, customer, currency, None, <<SkuPrice>>, amount_returned) :
        id \in OrderIds, customer \in CustomerIds, currency \in Currencies,
        amount_returned \in OptAmounts}

NextSync == \E stripe_order \in Payloads : SyncOrderFromStripeData(stripe_order)

SpecSync == Init /\ [][NextSync]_vars

----------------------------------------------------------------------------
(* Specification of the two upserting routines, sync_order_from_stripe_data and
   sync_plans, over payloads of local customers *)

UpsertPayloads ==
    {Payload(id, customer, "usd", charge, <<SkuPrice>>, << >>) :
        id \in OrderIds, customer \in customers, charge \in {None, ChargePool[1]}}

NextUpsert ==
    \/ \E stripe_order \in UpsertPayloads : SyncOrderFromStripeData(stripe_order)
    \/ SyncPlans
    \/ \E currency \in {"usd"} : ProviderAddPlan(currency, None)
    \/ \E i \in 1..MaxPlans, name \in PlanNames : ProviderEditPlan(i, name)

SpecUpsert == Init /\ [][NextUpsert]_vars

----------------------------------------------------------------------------
(* Properties *)

IsCreate(l) == l.op = "create"
IsSync(l) == l.op = "sync_order_from_stripe_data"

\* C1: create with pay_immediately=True and a falsy source (None or "") raises
\* ValueError with no provider call made, and leaves the provider's orders and
\* the local Order, Charge and Customer rows as they were.
C1_NoSourceRaisesBeforeProvider ==
    [][(IsCreate(last') /\ last'.args.pay_immediately /\ last'.args.source \in {None, ""})
        => /\ last'.exc = "ValueError"
           /\ last'.calls = << >>
           /\ orders' = orders
           /\ remote' = remote
           /\ charges' = charges
           /\ customers' = customers]_vars

C1_Witness ==
    /\ IsCreate(last) /\ last.args.pay_immediately /\ last.args.source = ""
    /\ last.exc = "ValueError"
    /\ Len(orders) > 0

\* The create calls whose immediate payment the provider answered with `outcome`.
CreatePaid(l, outcome) ==
    /\ IsCreate(l) /\ l.args.pay_immediately /\ Truthy(l.args.source)
    /\ l.args.customer \in customers
    /\ Len(l.calls) >= 2
    /\ l.calls[1] = <<"Order.create", "ok">>
    /\ l.calls[2] = <<"Order.pay", outcome>>

\* C2: create with pay_immediately=True and a source, for a local customer, whose
\* payment the provider rejects with InvalidRequestError: no exception escapes and
\* the local Order returned is the row synchronized from the unpaid remote order.
C2_RejectedPaymentStillReturnsOrder ==
    CreatePaid(last, "InvalidRequestError")
        => /\ last.exc = "none"
           /\ Len(last.ret) = 1
           /\ last.ret[1].kind = "model"
           /\ last.ret[1] \in LocalOrders
           /\ Exists(last.ret[1].stripe_id)
           /\ LET stripe_order == Fetch(last.ret[1].stripe_id) IN
              /\ stripe_order.status = "created"
              /\ stripe_order.charge = None
              /\ DefaultsOf(last.ret[1]) = OrderDefaults(stripe_order, None)

C2_Witness ==
    /\ CreatePaid(last, "InvalidRequestError")
    /\ last.exc = "none"
    /\ Len(last.ret) = 1
    /\ last.ret[1].status = "created"

\* C3: create with pay_immediately=True and a source whose payment the provider
\* accepts completes without error and returns the local Order in the paid state,
\* the final sync_order_from_stripe_data having been handed a remote payload.
C3_AcceptedPaymentReturnsPaidOrder ==
    CreatePaid(last, "ok")
        => /\ last.exc = "none"
           /\ Len(last.ret) = 1
           /\ last.ret[1].kind = "model"
           /\ last.ret[1].status = "paid"

\* C4: retrieve returns None without a provider call for an empty or absent
\* identifier, returns None when the provider raises an InvalidRequestError whose
\* message contains "No such order", and lets every other provider error through.
C4_RetrieveNotFoundIsAbsent ==
    last.op = "retrieve" =>
        LET id == last.args.stripe_order_id
            cls == last.args.outcome.cls
            msg == last.args.outcome.msg
            phrase == \E i \in 1..Len(msg) : msg[i] = "No such order"
        IN  /\ id \in {None, ""}
                => last.exc = "none" /\ last.ret = << >> /\ last.calls = << >>
            /\ (id \notin {None, ""} /\ cls = "InvalidRequestError" /\ phrase)
                => last.exc = "none" /\ last.ret = << >>
            /\ (id \notin {None, ""} /\ cls # "ok" /\ ~(cls = "InvalidRequestError" /\ phrase))
                => last.exc = cls

C4_Witness ==
    /\ last.op = "retrieve"
    /\ last.args.stripe_order_id = "or_x"
    /\ last.args.outcome.cls = "InvalidRequestError"
    /\ last.args.outcome.msg[1] = "No such order"
    /\ last.exc = "none" /\ last.ret = << >>
    /\ last.calls = <<<<"Order.retrieve", "InvalidRequestError">>>>

\* C5: a sync routine called a second time in a row with the payload of a first,
\* successful call leaves the rows as the first call left them, one row for each
\* external identifier of the payload, and saves no row.
C5_UpsertIdempotent ==
    [][/\ (IsSync(last) /\ IsSync(last') /\ last.exc = "none" /\ last'.args = last.args)
            => /\ last'.exc = "none"
               /\ orders' = orders
               /\ last'.saves = 0
               /\ last'.ret = last.ret
               /\ Cardinality(Matching(orders', last'.args.stripe_order.id)) = 1
       /\ (last.op = "sync_plans" /\ last'.op = "sync_plans" /\ last.exc = "none"
           /\ last'.args = last.args)
            => /\ last'.exc = "none"
               /\ plans' = plans
               /\ last'.saves = 0
               /\ \A i \in 1..Len(last'.args.data) :
                    Cardinality(Matching(plans', last'.args.data[i].id)) = 1]_vars

C5_Witness ==
    /\ IsSync(last) /\ last.exc = "none" /\ last.saves = 0
    /\ Truthy(last.ret[1].charge)
    /\ Len(orders) = 2
    /\ Len(plans) > 0
    /\ plans[1].name = "Pro"

\* C6: no two local Order rows share a stripe_id and no two local Plan rows do.
C6_ExternalIdUnique ==
    /\ \A i, j \in 1..Len(orders) : orders[i].stripe_id = orders[j].stripe_id => i = j
    /\ \A i, j \in 1..Len(plans) : plans[i].stripe_id = plans[j].stripe_id => i = j

C6_Witness ==
    /\ Len(orders) = 2
    /\ Len(plans) > 0
    /\ last.op = "update" /\ last.exc = "none" /\ last.saves = 1

\* C7: sync_order_from_stripe_data on an order whose customer is no local Customer
\* raises the lookup failure; no Customer, Order or Charge row is written and the
\* order's charge is not fetched from the provider.
C7_MissingCustomerPropagates ==
    [][(IsSync(last') /\ last'.args.stripe_order.customer \notin customers)
        => /\ last'.exc = "DoesNotExist"
           /\ last'.ret = << >>
           /\ last'.calls = << >>
           /\ customers' = customers
           /\ orders' = orders
           /\ charges' = charges]_vars

C7_Witness ==
    /\ IsSync(last)
    /\ last.args.stripe_order.customer = "cus_2"
    /\ Truthy(last.args.stripe_order.charge)
    /\ last.exc = "DoesNotExist"

\* C10: the stored amount_returned is absent exactly when the payload's is, and
\* otherwise is convert_amount_for_db(amount_returned, currency), zero included.
C10_AmountReturnedPresence ==
    (IsSync(last) /\ last.exc = "none") =>
        LET stripe_order == last.args.stripe_order
            order == last.ret[1]
        IN  /\ order.amount_returned = << >> <=> stripe_order.amount_returned = << >>
            /\ stripe_order.amount_returned # << >>
                => order.amount_returned =
                     convert_amount_for_db(stripe_order.amount_returned, stripe_order.currency)

----------------------------------------------------------------------------
(* Specifications of the admin list filters *)

HasCardValues == {"yes", "no", None}
SubStatusValues == SubscriptionStatuses \cup {"none", "past_due", "", None}

NextCards ==
    \/ AddCustomer
    \/ \E c \in CustomerPks, fingerprint \in Fingerprints : AddCard(c, fingerprint)
    \/ \E c \in CustomerPks : AddInvoice(c)
    \/ \E base \in SUBSET adminDb.customers, value \in HasCardValues :
            CustomerChangelistHasCard(base, value)
    \/ \E value \in HasCardValues : InvoiceChangelistHasCard(value)

SpecCards == Init /\ [][NextCards]_vars

NextSubscriptions ==
    \/ AddCustomer
    \/ \E c \in CustomerPks, status \in SubscriptionStatuses : AddSubscription(c, status)
    \/ \E base \in SUBSET adminDb.customers, value \in SubStatusValues :
            CustomerChangelistSubStatus(base, value)

SpecSubscriptions == Init /\ [][NextSubscriptions]_vars

\* the customers whose row occurs in a queryset
Rows(qs) == {c \in DOMAIN qs : qs[c] > 0}

\* C8: has_card=no selects exactly the customers (of the invoices: the invoices'
\* customers) with no card of non-empty fingerprint, has_card=yes exactly those
\* with at least one.
C8_HasCardFilterExact ==
    /\ view.filter = "customer has_card" =>
        /\ view.value = "no" => Rows(view.result) = {c \in view.base : ~HasCard(c)}
        /\ view.value = "yes" => Rows(view.result) = {c \in view.base : HasCard(c)}
    /\ view.filter = "invoice has_card" =>
        /\ view.value = "no" =>
            Rows(view.result) = {c \in CustomerPks : adminDb.invoices[c] > 0 /\ ~HasCard(c)}
        /\ view.value = "yes" =>
            Rows(view.result) = {c \in CustomerPks : adminDb.invoices[c] > 0 /\ HasCard(c)}

----------------------------------------------------------------------------
(* Specification of the bulk synchronization, sync_orders and
   sync_orders_from_customer, over a listing the provider has grown *)

MaxListing == 3

\* An order placed at the provider by another client of the account: the listing
\* that stripe.Order.auto_paging_iter / stripe.Order.list read is newest first.
ProviderAddOrder(customer, charge) ==
    /\ Len(remote) < MaxListing
    /\ remote' = <<Payload(IdPool[Len(remote) + 1], customer, "usd", charge,
                           <<SkuPrice>>, << >>)>> \o remote
    /\ last' = ProviderStep
    /\ UNCHANGED <<customers, orders, charges, remotePlans, plans, adminVars>>

NextBulk ==
    \/ \E customer \in CustomerIds, charge \in {None, ChargePool[1]} :
            ProviderAddOrder(customer, charge)
    \/ \E has_auto_paging_iter \in BOOLEAN : SyncOrders(has_auto_paging_iter)
    \/ \E customer \in customers, has_auto_paging_iter \in BOOLEAN :
            SyncOrdersFromCustomer(customer, has_auto_paging_iter)

SpecBulk == Init /\ [][NextBulk]_vars

IsBulk(l) == l.op \in {"sync_orders", "sync_orders_from_customer"}

\* The listing a bulk call is to walk: every order of the provider, or every
\* order of the customer the call names.
ListingOf(l, rem) ==
    IF l.op = "sync_orders_from_customer" THEN Filter(rem, l.args.customer) ELSE rem

Ids(listing) == [i \in 1..Len(listing) |-> listing[i].id]

\* C11: after sync_orders, or sync_orders_from_customer, has completed without
\* error, on either pagination path, every order of the provider's listing (of
\* that customer's orders), however many pages it spans, has a local Order row.
C11_FullListingSynchronized ==
    (IsBulk(last) /\ last.exc = "none") =>
        LET listing == ListingOf(last, remote) IN
        \A i \in 1..Len(listing) : Matching(orders, listing[i].id) # {}

\* The Order row of a stripe order, as a set: empty when there is none.
RowsOf(rows, stripe_id) == {rows[i] : i \in Matching(rows, stripe_id)}

\* C12: a bulk call that fails does so on the k-th order of the listing: the
\* orders were taken one at a time in listing order up to k, the rows of orders
\* 1..k-1 are written as their payloads say, the error of order k is the one
\* raised, and no order after k is attempted or its row touched.
C12_FailureKeepsEarlierWrites ==
    [][(IsBulk(last') /\ last'.exc # "none") =>
        LET listing == ListingOf(last', remote)
            k == Len(last'.synced)
        IN  /\ k \in 1..Len(listing)
            /\ last'.synced = SubSeq(Ids(listing), 1, k)
            /\ listing[k].customer \notin customers
            /\ last'.exc = "DoesNotExist"
            /\ \A i \in 1..(k - 1) :
                \E row \in RowsOf(orders', listing[i].id) :
                    DefaultsOf(row) = OrderDefaults(listing[i], listing[i].charge)
            /\ \A i \in k..Len(listing) :
                RowsOf(orders', listing[i].id) = RowsOf(orders, listing[i].id)]_vars

C12_Witness ==
    /\ last.op = "sync_orders" /\ last.exc = "DoesNotExist"
    /\ Len(last.synced) = 2
    /\ last.saves = 1
    /\ Len(remote) = 3
    /\ Len(orders) = 1
    /\ orders[1].stripe_id = remote[1].id

----------------------------------------------------------------------------
(* Specification of orders.update over the orders that orders.create left *)

MaxUpdated == 1

\* A value the caller may pass for a field: left out (None), empty, or a value.
Provided(value) == {None, "", value}

NextUpdate ==
    \/ /\ Len(remote) < MaxUpdated
       /\ \E coupon \in {"SPRING"} :
            Create("cus_1", <<Sku1>>, "usd", None, None, coupon, None, FALSE, "ok", "ok")
    \/ \E order \in LocalOrders, coupon \in Provided("SUMMER"), metadata \in Provided("gift"),
          selected_shipping_method \in {None, "ship_express"},
          shipping \in {None, "UPS 1212"}, status \in Provided("canceled") :
            Update(order, coupon, metadata, selected_shipping_method, shipping, status, "ok")

SpecUpdate == Init /\ [][NextUpdate]_vars

\* a field after the call, given what the caller passed for it
Applied(arg, before, after) == IF arg # None THEN after = arg ELSE after = before

\* C13: update sets exactly the fields the caller passed (each passed value, the
\* empty ones included) on the remote order, leaves the other fields as they
\* were, saves the remote order once and then synchronizes the local Order from it.
C13_UpdateSetsProvidedFields ==
    [][(last'.op = "update" /\ last'.exc = "none") =>
        /\ Len(remote') = Len(remote)
        /\ \E i \in 1..Len(remote) :
            LET before == remote[i]
                after == remote'[i]
                a == last'.args
            IN  /\ before.id = a.order
                /\ Applied(a.coupon, before.coupon, after.coupon)
                /\ Applied(a.metadata, before.metadata, after.metadata)
                /\ Applied(a.selected_shipping_method, before.selected_shipping_method,
                           after.selected_shipping_method)
                /\ Applied(a.shipping, before.shipping, after.shipping)
                /\ Applied(a.status, before.status, after.status)
                /\ after = [before EXCEPT !.coupon = after.coupon,
                                          !.metadata = after.metadata,
                                          !.selected_shipping_method =
                                                after.selected_shipping_method,
                                          !.shipping = after.shipping,
                                          !.status = after.status]
                /\ \A j \in 1..Len(remote) : j # i => remote'[j] = remote[j]
                /\ last'.calls = <<<<"Order.retrieve", "ok">>, <<"Order.save", "ok">>>>
                /\ Len(last'.ret) = 1
                /\ last'.ret[1] \in RowsOf(orders', a.order)
                /\ DefaultsOf(last'.ret[1]) = OrderDefaults(after, after.charge)]_vars

----------------------------------------------------------------------------
(* The customer changelist and the queries its rendering issues (admin.py) *)

\* CustomerAdmin.list_display; subscription_status is the function of that name
CustomerListDisplay ==
    {"stripe_id", "user", "account_balance", "currency", "delinquent", "default_source",
     "subscription_status", "date_purged", "stripe_account"}

\* the plain ChangeList: nothing is prefetched
NoPrefetch(list_display) == {}

\* PrefetchingChangeList.get_queryset: the relations handed to prefetch_related
PrefetchingChangeList(list_display) ==
    (IF "subscription_status" \in list_display THEN {"subscription_set"} ELSE {})
    \cup (IF "customer" \in list_display THEN {"customer"} ELSE {})
    \cup (IF "user" \in list_display THEN {"user"} ELSE {})

\* The queries of a request that its rows do not add to: the session and its
\* user, the lookups of AccountListFilter and CustomerSubscriptionStatusListFilter,
\* the count and the select of the page. A query is <<what it reads, row>>.
FixedQueries ==
    <<<<"session", 0>>, <<"auth user", 0>>, <<"Account.objects.all", 0>>,
      <<"Subscription status distinct", 0>>, <<"count", 0>>, <<"select customers", 0>>>>

\* prefetch_related: one query for each relation, none when the page has no row
PrefetchQueries(rows, prefetched) ==
    IF rows = {} THEN << >>
    ELSE (IF "subscription_set" \in prefetched THEN <<<<"prefetch subscription_set", 0>>>> ELSE << >>)
         \o (IF "user" \in prefetched THEN <<<<"prefetch user", 0>>>> ELSE << >>)

\* The queries that displaying the columns of row c issues: a related object that
\* was not prefetched is read when its column is rendered; stripe_account is a
\* nullable foreign key, read for the rows that have one.
RowQueries(db, prefetched, list_display, c) ==
    (IF "user" \in list_display /\ "user" \notin prefetched
     THEN <<<<"user", c>>>> ELSE << >>)
    \o (IF "subscription_status" \in list_display /\ "subscription_set" \notin prefetched
        THEN <<<<"subscription_set.all", c>>>> ELSE << >>)
    \o (IF "stripe_account" \in list_display /\ c \in db.accounts
        THEN <<<<"stripe_account", c>>>> ELSE << >>)

RECURSIVE AllRowQueries(_, _, _, _)
AllRowQueries(db, prefetched, list_display, rows) ==
    IF rows = {} THEN << >>
    ELSE LET c == CHOOSE x \in rows : \A y \in rows : x <= y IN
         RowQueries(db, prefetched, list_display, c)
            \o AllRowQueries(db, prefetched, list_display, rows \ {c})

ChangelistQueries(db, list_display) ==
    LET prefetched == PrefetchingChangeList(list_display) IN
    FixedQueries \o PrefetchQueries(db.customers, prefetched)
                 \o AllRowQueries(db, prefetched, list_display, db.customers)

\* Customer.objects.create(user=..., stripe_id=..., stripe_account=account)
AddConnectCustomer ==
    /\ Cardinality(adminDb.customers) < MaxCustomers
    /\ adminDb' = [adminDb EXCEPT !.customers = @ \cup {Cardinality(@) + 1},
                                  !.accounts = @ \cup {Cardinality(adminDb.customers) + 1}]
    /\ view' = NoView
    /\ UNCHANGED orderVars

\* GET admin:pinax_stripe_customer_changelist, no filter selected; the request
\* is recorded with the tables it was rendered from.
CustomerChangelist ==
    /\ view' = [filter |-> "customer changelist", value |-> None,
                base |-> adminDb.customers, result |-> All(adminDb.customers)]
    /\ last' = [op |-> "customer changelist", args |-> [db |-> adminDb], exc |-> "none",
                ret |-> << >>, calls |-> ChangelistQueries(adminDb, CustomerListDisplay),
                saves |-> 0, synced |-> << >>]
    /\ UNCHANGED <<adminDb, remote, customers, orders, charges, remotePlans, plans>>

NextChangelist ==
    \/ AddCustomer
    \/ AddConnectCustomer
    \/ \E c \in CustomerPks : AddSubscription(c, "active")
    \/ CustomerChangelist

SpecChangelist == Init /\ [][NextChangelist]_vars

IsChangelist(l) == l.op = "customer changelist"

\* The tables after one Customer row, with a user and no subscription, was added.
OneMoreCustomer(before, after) ==
    \E c \in after.customers \ before.customers :
        /\ after.customers = before.customers \cup {c}
        /\ after.cards = before.cards
        /\ after.subscriptions = before.subscriptions
        /\ after.invoices = before.invoices
        /\ after.accounts \ {c} = before.accounts

----------------------------------------------------------------------------
(* Specification of sync_order_from_stripe_data over orders with and without a
   charge, the write of the Order row succeeding or failing *)

WriteOutcomes == {"ok", "IntegrityError"}

ChargePayloads ==
    {Payload(id, customer, "usd", charge, <<SkuPrice>>, << >>) :
        id \in OrderIds, customer \in CustomerIds,
        charge \in {None, ChargePool[1], ChargePool[2]}}

NextCharge ==
    \E stripe_order \in ChargePayloads, writeOutcome \in WriteOutcomes :
        SyncOrderFromStripeDataWriting(stripe_order, writeOutcome)

SpecCharge == Init /\ [][NextCharge]_vars

\* C15: sync_order_from_stripe_data on an order of a local customer that names a
\* charge fetches that charge from the provider and writes the Charge row before
\* the Order row, which carries that charge; when the Order write fails its error
\* is raised, no Order row is written and the Charge row stays. An order that
\* names no charge has none fetched or written and its row's charge is unset.
C15_ChargeSyncedBeforeOrder ==
    [][(IsSync(last') /\ last'.args.stripe_order.customer \in customers) =>
        LET stripe_order == last'.args.stripe_order
            charge == stripe_order.charge
        IN  /\ charge # None =>
                /\ last'.calls = <<<<"Charge.retrieve", charge>>>>
                /\ charges' = charges \cup {charge}
                /\ last'.args.writeOutcome = "ok" =>
                    /\ last'.exc = "none"
                    /\ last'.ret[1].charge = charge
                    /\ last'.ret[1] \in RowsOf(orders', stripe_order.id)
                /\ last'.args.writeOutcome # "ok" =>
                    /\ last'.exc = last'.args.writeOutcome
                    /\ orders' = orders
            /\ charge = None =>
                /\ last'.calls = << >>
                /\ charges' = charges
                /\ last'.args.writeOutcome = "ok" =>
                    /\ last'.exc = "none"
                    /\ last'.ret[1].charge = None
                /\ last'.args.writeOutcome # "ok" => orders' = orders]_vars

C15_Witness ==
    /\ IsSync(last)
    /\ last.args.writeOutcome = "IntegrityError"
    /\ last.exc = "IntegrityError"
    /\ last.args.stripe_order.charge = ChargePool[2]
    /\ ChargePool[2] \in charges
    /\ \A i \in 1..Len(orders) : orders[i].charge # ChargePool[2]

----------------------------------------------------------------------------
(* Specification of the four action functions: create, update, pay, create_return *)

MaxActed == 1

NextActions ==
    \/ /\ Len(remote) < MaxActed
       /\ \E pay_immediately \in BOOLEAN, createOutcome \in CreateOutcomes,
             payOutcome \in PayResults :
                Create("cus_1", <<Sku1>>, "usd", "tok_visa", None, None, None,
                       pay_immediately, createOutcome, payOutcome)
    \/ \E order \in LocalOrders, status \in Statuses, saveOutcome \in CreateOutcomes :
            Update(order, None, None, None, None, status, saveOutcome)
    \/ \E order \in LocalOrders \cup RemoteOrders, source \in {None, "tok_visa"},
          outcome \in PayResults :
            Pay(order, source, outcome)
    \/ \E order \in LocalOrders, outcome \in CreateOutcomes :
            CreateReturn(order, None, outcome)

SpecActions == Init /\ [][NextActions]_vars

IsAction(l) == l.op \in {"create", "update", "pay", "create_return"}

\* stripe.Order.create, stripe_order.save, stripe_order.pay, stripe_order.return_order
MutatingCalls == {"Order.create", "Order.save", "Order.pay", "Order.return_order"}

\* The mutating provider calls of a call that raised, the InvalidRequestError of
\* the payment inside create left out.
Failed(l) ==
    {i \in 1..Len(l.calls) :
        /\ l.calls[i][1] \in MutatingCalls
        /\ l.calls[i][2] # "ok"
        /\ ~(l.op = "create" /\ l.calls[i] = <<"Order.pay", "InvalidRequestError">>)}

\* C16: in create, update, pay and create_return no local row is written before
\* the mutating provider call has returned, and when that call raises (the
\* suppressed InvalidRequestError of create's payment aside) its error is the
\* call's and the Order, Charge and Customer rows are as they were.
C16_ProviderCallPrecedesLocalWrite ==
    [][IsAction(last') =>
        /\ \A i \in Failed(last') :
            /\ last'.exc = last'.calls[i][2]
            /\ i = Len(last'.calls)
            /\ last'.saves = 0
            /\ orders' = orders
            /\ charges' = charges
            /\ customers' = customers
        /\ (last'.saves > 0 \/ orders' # orders \/ charges' # charges) =>
            \E i \in 1..Len(last'.calls) :
                last'.calls[i][1] \in MutatingCalls /\ last'.calls[i][2] = "ok"]_vars

C16_Witness ==
    /\ last.op = "create" /\ last.exc = "CardError"
    /\ last.calls = <<<<"Order.create", "ok">>, <<"Order.pay", "CardError">>>>
    /\ Len(remote) = 1
    /\ orders = << >>
====
